---- MODULE Spec2Model ----
(***************************************************************************)
(* A model of blex: the token model of src/src/token.rs and the rewrite    *)
(* engine (process_rule, process_rules) of src/src/lib.rs, together with   *)
(* the rule functions that lib.rs defines for its tests.                   *)
(*                                                                         *)
(* A string slice is modelled as the sequence of its UTF-8 bytes.  A       *)
(* one-byte character is the byte named after it; a two-byte character is  *)
(* its lead byte followed by the continuation byte Cont.  Token indices    *)
(* are byte offsets, as in the code.                                       *)
(***************************************************************************)
EXTENDS Integers, Sequences, FiniteSets, TLC

(***************************************************************************)
(* Bounds of the model.                                                    *)
(***************************************************************************)
\* longest enumerated input text, in characters
MaxLen == 3
\* how many tokens more than the body process_rules was called with the
\* model's body holds: of a longer body the oldest tokens behind the cursor
\* are left out
MaxGrowth == 2

(***************************************************************************)
(* Characters and strings.                                                 *)
(***************************************************************************)
\* the character U+0000, which is char::default()
NUL == "NUL"
\* the continuation byte of a two-byte character
Cont == "CONT"

Letters == {"a", "k", "A", "s", "p", "c", "e"}
DigitChars == {"0", "1", "2", "3", "4"}
WhiteChars == {" "}
\* a character of two bytes in UTF-8 (U+00E9, an alphabetic character)
WideChars == {"U+00E9"}

\* the characters the enumerated texts are made of
Alphabet == {"a", "0", "1", " ", NUL, "U+00E9"}

\* the texts of the tests apply_ints ("123 040 k") and apply_one_rule ("A space")
IntsText == <<"1", "2", "3", " ", "0", "4", "0", " ", "k">>
WordsText == <<"A", " ", "s", "p", "a", "c", "e">>

\* char::is_whitespace, char::is_alphabetic, char::is_digit(10) on the alphabet
is_whitespace(ch) == ch \in WhiteChars
is_alphabetic(ch) == ch \in Letters \cup WideChars
is_digit(ch) == ch \in DigitChars

\* char::len_utf8
len_utf8(ch) == IF ch \in WideChars THEN 2 ELSE 1

\* the bytes of a text given as a sequence of characters
RECURSIVE Utf8(_)
Utf8(chars) ==
    IF chars = <<>> THEN <<>>
    ELSE (IF len_utf8(Head(chars)) = 2 THEN <<Head(chars), Cont>> ELSE <<Head(chars)>>)
         \o Utf8(Tail(chars))

\* str::is_char_boundary
is_char_boundary(str, i) ==
    \/ i = 0
    \/ i = Len(str)
    \/ i > 0 /\ i < Len(str) /\ str[i + 1] # Cont

\* whether the slice str[lo..hi] is taken without a panic
SliceOk(str, lo, hi) ==
    /\ lo <= hi
    /\ hi <= Len(str)
    /\ is_char_boundary(str, lo)
    /\ is_char_boundary(str, hi)

\* the slice str[lo..hi], where SliceOk
Slice(str, lo, hi) == SubSeq(str, lo + 1, hi)

(***************************************************************************)
(* Tokens (token.rs).                                                      *)
(***************************************************************************)
\* struct Token
Token(body, lo, hi, tags) ==
    [body |-> body, indices |-> [start |-> lo, end |-> hi], tags |-> tags]

empty_token == Token(<<>>, 0, 0, <<>>)

\* whether Token::content returns (the slice of line 28 does not panic)
ContentOk(tok) == SliceOk(tok.body, tok.indices.start, tok.indices.end)

content(tok) == Slice(tok.body, tok.indices.start, tok.indices.end)

has_tag(tok, tag) == \E i \in 1..Len(tok.tags) : tok.tags[i] = tag

\* Token::single_char followed by unwrap_or_default: the first character of
\* the content, U+0000 when the content is empty
single_char_or_default(tok) ==
    IF content(tok) = <<>> THEN NUL ELSE content(tok)[1]

\* the slice tokens[lo..hi] of a Vec
VecSlice(tokens, lo, hi) == SubSeq(tokens, lo + 1, hi)

Last(tokens) == tokens[Len(tokens)]

\* the indices at which the loop of str_to_tokens panics: the slice of
\* line 88 is not on character boundaries
PanicsAt(str) == {i \in 0..(Len(str) - 1) : ~SliceOk(str, i, i + 1)}

\* whether str_to_tokens returns
StrToTokensOk(str) == PanicsAt(str) = {}

\* the tokens str_to_tokens returns, where StrToTokensOk
str_to_tokens(str) ==
    [i \in 1..Len(str) |-> Token(str, i - 1, i, <<str[i]>>)] \o <<empty_token>>

\* a faulty wrap: the tags of the first token are kept before the new ones
wrap_keeping_tags(tokens, tags) ==
    IF tokens = <<>> THEN empty_token
    ELSE Token(tokens[1].body, tokens[1].indices.start,
               tokens[Len(tokens)].indices.end, tokens[1].tags \o tags)

\* a faulty wrap: the span is the first token's alone
wrap_first_only(tokens, tags) ==
    IF tokens = <<>> THEN empty_token
    ELSE Token(tokens[1].body, tokens[1].indices.start, tokens[1].indices.end, tags)

wrap(tokens, tags) ==
    IF tokens = <<>> THEN empty_token
    ELSE Token(tokens[1].body, tokens[1].indices.start, Last(tokens).indices.end, tags)

\* token_from_string
token_from_string(str, tags) == Token(str, 0, Len(str), tags)

\* tokens_structure
tokens_structure(tokens) ==
    IF Len(tokens) = 1 THEN "Single"
    ELSE IF Len(tokens) > 1 THEN "Multiple"
    ELSE "None"

(***************************************************************************)
(* Rules.  A rule maps a window to None or Some(replacement); it panics    *)
(* when it takes the content of a token whose span is no slice of its      *)
(* body.                                                                   *)
(***************************************************************************)
None == [kind |-> "None", val |-> <<>>]
Some(tokens) == [kind |-> "Some", val |-> tokens]
Panic == [kind |-> "Panic", val |-> <<>>]

\* Token::single_char: self.content().chars().next()
single_char(tok) ==
    IF content(tok) = <<>> THEN None ELSE Some(content(tok)[1])

\* the number of characters of a string
CharLen(str) == Cardinality({i \in 1..Len(str) : str[i] # Cont})

\* tokens[0].tags.push(tag)
PushTag(tokens, tag) ==
    [tokens EXCEPT ![1] = [@ EXCEPT !.tags = Append(@, tag)]]

\* tokens[0..tokens.len() - 1]
ButLast(tokens) == SubSeq(tokens, 1, Len(tokens) - 1)

whitespace_rule(tokens) ==
    IF ~ContentOk(tokens[1]) THEN Panic
    ELSE LET ch == single_char_or_default(tokens[1])
         IN  IF is_whitespace(ch) \/ ch = NUL
             THEN Some(PushTag(tokens, "ws"))
             ELSE Some(tokens)

letter_rule(tokens) ==
    IF ~ContentOk(tokens[1]) THEN Panic
    ELSE IF is_alphabetic(single_char_or_default(tokens[1]))
         THEN Some(PushTag(tokens, "letter"))
         ELSE Some(tokens)

word_rule(tokens) ==
    IF has_tag(Last(tokens), "letter") THEN None
    ELSE IF Len(tokens) = 1 THEN Some(tokens)
    ELSE Some(<<wrap(ButLast(tokens), <<"word">>), Last(tokens)>>)

int_rule(tokens) ==
    IF tokens_structure(tokens) = "Single"
    THEN IF ~ContentOk(tokens[1]) THEN Panic
         ELSE IF content(tokens[1]) = <<"0">>
              THEN Some(<<wrap(tokens, <<"int", "posInt">>)>>)
         ELSE IF has_tag(tokens[1], "digit") THEN None
         ELSE Some(tokens)
    ELSE IF tokens_structure(tokens) = "Multiple"
    THEN IF has_tag(Last(tokens), "digit") THEN None
         ELSE Some(<<wrap(ButLast(tokens), <<"int", "posInt">>), Last(tokens)>>)
    ELSE Some(tokens)

remove_whitespace_rule(tokens) ==
    IF has_tag(tokens[1], "ws") THEN Some(<<>>) ELSE Some(tokens)

digit_rule(tokens) ==
    IF tokens_structure(tokens) = "Single"
    THEN IF ~ContentOk(tokens[1]) THEN Panic
         ELSE LET ch == single_char_or_default(tokens[1])
              IN  IF is_digit(ch)
                  THEN IF ch # "0"
                       THEN Some(PushTag(PushTag(tokens, "digit"), "nonzero"))
                       ELSE Some(PushTag(tokens, "digit"))
                  ELSE Some(tokens)
    ELSE Some(tokens)

\* A rule given by two numbers: no decision on a window shorter than k, and
\* on a window of k tokens a replacement of m tokens, the window's tokens in
\* order, repeated from the first when m > k.  replace(1, 1) is the identity
\* rule, replace(1, 0) deletes every token, m > k makes the body grow.
replace_rule(k, m, tokens) ==
    IF Len(tokens) < k THEN None
    ELSE Some([j \in 1..m |-> tokens[((j - 1) % Len(tokens)) + 1]])

\* the rule that returns no decision for every window
none_rule(tokens) == None

Named(n) == [name |-> n, k |-> 0, m |-> 0]
Replace(k, m) == [name |-> "replace", k |-> k, m |-> m]

\* rule(tokens), for the rule value the engine was given
Call(rule, tokens) ==
    CASE rule.name = "whitespace_rule" -> whitespace_rule(tokens)
      [] rule.name = "letter_rule" -> letter_rule(tokens)
      [] rule.name = "word_rule" -> word_rule(tokens)
      [] rule.name = "int_rule" -> int_rule(tokens)
      [] rule.name = "remove_whitespace_rule" -> remove_whitespace_rule(tokens)
      [] rule.name = "digit_rule" -> digit_rule(tokens)
      [] rule.name = "none_rule" -> none_rule(tokens)
      [] rule.name = "replace" -> replace_rule(rule.k, rule.m, tokens)

word_rules ==
    <<Named("whitespace_rule"), Named("letter_rule"), Named("word_rule"),
      Named("remove_whitespace_rule")>>

int_rules ==
    <<Named("whitespace_rule"), Named("digit_rule"), Named("int_rule"),
      Named("remove_whitespace_rule")>>

(***************************************************************************)
(* The inputs: a text and the rules given to process_rules.                *)
(***************************************************************************)
RECURSIVE TextsOfLen(_)
TextsOfLen(n) ==
    IF n = 0 THEN {<<>>}
    ELSE {Append(t, ch) : t \in TextsOfLen(n - 1), ch \in Alphabet}

Texts ==
    UNION {TextsOfLen(n) : n \in 0..MaxLen} \cup {IntsText, WordsText}

\* the rules replace(k, m) of the inputs
ReplaceRules == {Replace(k, m) : k \in 1..2, m \in 0..2} \cup {Replace(2, 3)}

TestRules ==
    {Named(n) : n \in {"whitespace_rule", "letter_rule", "word_rule", "int_rule",
                       "remove_whitespace_rule", "digit_rule"}}

\* lists of two rules
PairLists ==
    {<<Named("whitespace_rule"), Named("remove_whitespace_rule")>>,
     <<Named("remove_whitespace_rule"), Named("whitespace_rule")>>,
     <<Named("letter_rule"), Named("word_rule")>>,
     <<Named("digit_rule"), Named("int_rule")>>,
     <<Replace(2, 1), Named("remove_whitespace_rule")>>}

RuleLists ==
    {<<r>> : r \in ReplaceRules \cup TestRules \cup {Named("none_rule")}}
    \cup PairLists
    \cup {word_rules, int_rules}

(***************************************************************************)
(* The engine (lib.rs).                                                    *)
(***************************************************************************)
VARIABLES
    text,         \* the caller's text, a sequence of characters
    rules,        \* the rules given to process_rules
    body,         \* the token sequence under rewriting
    rule_index,   \* how many rules the loop of process_rules has taken
    start_index,  \* process_rule's start_index
    end_index,    \* process_rule's end_index
    applied,      \* process_rule's applied
    pc,           \* where the program is
    made_by,      \* the function the caller made the body with
    body0,        \* the body process_rules was called with
    expanded,     \* whether a replacement was longer than its window
    truncated,    \* whether the model has left tokens out of body
    called,       \* the positions in rules of the rules invoked so far
    pass_body,    \* the body the running process_rule was called with
    iterations,   \* the outer iterations of the running process_rule so far
    invocations   \* the calls of the rule by the running process_rule so far

vars ==
    <<text, rules, body, rule_index, start_index, end_index, applied, pc,
      made_by, body0, expanded, truncated, called, pass_body, iterations,
      invocations>>

\* a faulty loop of process_rules: the rules are taken last to first
rule_reversed == rules[Len(rules) + 1 - rule_index]

\* the rule of the running process_rule call
rule == rules[rule_index]

\* body[start_index..end_index]
Window == VecSlice(body, start_index, end_index)

\* a faulty body.splice(lo..hi, replacement): the range is one token too
\* long
splice_one_more(tokens, lo, hi, replacement) ==
    SubSeq(tokens, 1, lo) \o replacement \o SubSeq(tokens, hi + 2, Len(tokens))

\* a faulty body.splice(lo..hi, replacement): the range begins one token
\* before lo
splice_one_before(tokens, lo, hi, replacement) ==
    SubSeq(tokens, 1, lo - 1) \o replacement \o SubSeq(tokens, hi + 1, Len(tokens))

\* body.splice(lo..hi, replacement)
splice(tokens, lo, hi, replacement) ==
    SubSeq(tokens, 1, lo) \o replacement \o SubSeq(tokens, hi + 1, Len(tokens))

\* faulty cursor policies: always advance; advance only when the body grew
NextStartAlways(start, window_len, r_len) == start + 1
NextStartOnGrowth(start, window_len, r_len) ==
    IF r_len > window_len THEN start + 1 ELSE start

\* start_index after a splice (lines 44-46)
NextStart(start, window_len, r_len) ==
    IF r_len >= window_len THEN start + 1 ELSE start

\* a faulty line 25: the cursor is left where it is
AfterSkipForgotten(start) == start

\* start_index when the window would pass the end of the body (line 25)
AfterSkip(start) == start + 1

\* the model's body is no longer than the bound allows
WithinBound == Len(body) <= Len(body0) + MaxGrowth

\* a faulty line 15: the first window is of two tokens
FirstEndTwo(start) == start + 2

\* end_index at the beginning of an outer iteration (line 15)
FirstEnd(start) == start + 1

\* a faulty line 24: the window may pass the end of the body by one token
PastEndLate(end, len) == end > len + 1

\* whether the window would pass the end of the body (line 24)
PastEnd(end, len) == end > len

\* whether tokens[lo..hi] is taken without a panic
WindowOk(tokens, lo, hi) == lo <= hi /\ hi <= Len(tokens)

\* the panic of a slice out of range
SlicePanic == [kind |-> "SlicePanic", val |-> <<>>]

\* rule(body[lo..hi].to_vec()) (lines 16-19 and 28-29)
CallOnWindow(lo, hi) ==
    IF WindowOk(body, lo, hi) THEN Call(rule, VecSlice(body, lo, hi)) ELSE SlicePanic

\* n + (n - 1) + ... + 1
Triangle(n) == (n * (n + 1)) \div 2

\* iterations and invocations are counted up to CountCap, one more than the
\* number of windows of the body the pass began with
CountCap == Triangle(Len(pass_body)) + 1

Count(c) == IF c < CountCap THEN c + 1 ELSE c

Init ==
    /\ text \in Texts
    /\ rules \in RuleLists
    /\ body = <<>>
    /\ rule_index = 0
    /\ start_index = 0
    /\ end_index = 0
    /\ applied = None
    /\ pc = "main"
    /\ made_by = "nothing"
    /\ body0 = <<>>
    /\ expanded = FALSE
    /\ truncated = FALSE
    /\ called = {}
    /\ pass_body = <<>>
    /\ iterations = 0
    /\ invocations = 0

\* the caller makes the body with str_to_tokens, which panics on a slice
\* that is not on character boundaries
Tokenize ==
    /\ pc = "main"
    /\ IF StrToTokensOk(Utf8(text))
       THEN /\ body' = str_to_tokens(Utf8(text))
            /\ pc' = "rules"
       ELSE /\ body' = body
            /\ pc' = "panicked"
    /\ made_by' = "str_to_tokens"
    /\ body0' = body'
    /\ UNCHANGED <<text, rules, rule_index, start_index, end_index, applied, expanded,
                   truncated, called, pass_body, iterations, invocations>>

\* the caller makes the body of one token_from_string token per character,
\* as test_tokens does
FromStrings ==
    /\ pc = "main"
    /\ body' = [i \in 1..Len(text) |->
                   token_from_string(Utf8(<<text[i]>>), <<text[i]>>)]
    /\ made_by' = "token_from_string"
    /\ body0' = body'
    /\ pc' = "rules"
    /\ UNCHANGED <<text, rules, rule_index, start_index, end_index, applied, expanded,
                   truncated, called, pass_body, iterations, invocations>>

\* process_rules: the for loop takes the next rule and calls process_rule,
\* or ends
NextRule ==
    /\ pc = "rules"
    /\ IF rule_index < Len(rules)
       THEN /\ rule_index' = rule_index + 1
            /\ start_index' = 0
            /\ pass_body' = body
            /\ iterations' = 0
            /\ invocations' = 0
            /\ pc' = "outer"
       ELSE /\ pc' = "done"
            /\ UNCHANGED <<rule_index, start_index, pass_body, iterations, invocations>>
    /\ UNCHANGED <<text, rules, body, end_index, applied, made_by, body0, expanded,
                   truncated, called>>

\* process_rule, lines 13-19: an outer iteration begins and the rule is
\* called on the window of one token
OuterIter ==
    /\ pc = "outer"
    /\ WithinBound
    /\ start_index < Len(body)
    /\ end_index' = FirstEnd(start_index)
    /\ applied' = CallOnWindow(start_index, end_index')
    /\ iterations' = Count(iterations)
    /\ IF applied'.kind = "SlicePanic"
       THEN UNCHANGED <<called, invocations>>
       ELSE /\ called' = called \cup {rule_index}
            /\ invocations' = Count(invocations)
    /\ pc' = IF applied'.kind \in {"Panic", "SlicePanic"} THEN "panicked" ELSE "inner"
    /\ UNCHANGED <<text, rules, body, rule_index, start_index, made_by, body0, expanded,
                   truncated, pass_body>>

\* process_rule, line 13: the loop ends and process_rule returns
PassEnd ==
    /\ pc = "outer"
    /\ WithinBound
    /\ start_index >= Len(body)
    /\ pc' = "rules"
    /\ UNCHANGED <<text, rules, body, rule_index, start_index, end_index, applied,
                   made_by, body0, expanded, truncated, called, pass_body, iterations,
                   invocations>>

\* process_rule, lines 22-30: the rule returned None
Grow ==
    /\ pc = "inner"
    /\ applied.kind = "None"
    /\ end_index' = end_index + 1
    /\ IF PastEnd(end_index', Len(body))
       THEN /\ start_index' = AfterSkip(start_index)
            /\ applied' = applied
            /\ pc' = "outer"
            /\ UNCHANGED <<called, invocations>>
       ELSE /\ start_index' = start_index
            /\ applied' = CallOnWindow(start_index, end_index')
            /\ IF applied'.kind = "SlicePanic"
               THEN UNCHANGED <<called, invocations>>
               ELSE /\ called' = called \cup {rule_index}
                    /\ invocations' = Count(invocations)
            /\ pc' = IF applied'.kind \in {"Panic", "SlicePanic"}
                     THEN "panicked" ELSE "inner"
    /\ UNCHANGED <<text, rules, body, rule_index, made_by, body0, expanded,
                   truncated, pass_body, iterations>>

\* process_rule, lines 33-46: the rule returned Some(replacement)
Splice ==
    /\ pc = "inner"
    /\ applied.kind = "Some"
    /\ LET r_len == Len(applied.val)
           window_len == end_index - start_index
       IN  /\ body' = splice(body, start_index, end_index, applied.val)
           /\ start_index' = NextStart(start_index, window_len, r_len)
           /\ expanded' = (expanded \/ r_len > window_len)
    /\ pc' = "outer"
    /\ UNCHANGED <<text, rules, rule_index, end_index, applied, made_by, body0, truncated,
                   called, pass_body, iterations, invocations>>

\* Not a step of the program: the body has outgrown the bound at the head
\* of the loop, and the model leaves out its first token.  That token is
\* behind the cursor, where process_rule reads and writes nothing for the
\* rest of the pass (body[start_index..end_index] and the splice of the same
\* range are its only accesses), so the pass goes on as it would with the
\* whole body.  From then on body is the tail of the program's body.
Forget ==
    /\ pc = "outer"
    /\ ~WithinBound
    /\ start_index > 0
    /\ body' = Tail(body)
    /\ start_index' = start_index - 1
    /\ truncated' = TRUE
    /\ UNCHANGED <<text, rules, rule_index, end_index, applied, pc, made_by, body0,
                   expanded, called, pass_body, iterations, invocations>>

Next ==
    \/ Tokenize
    \/ FromStrings
    \/ NextRule
    \/ OuterIter
    \/ PassEnd
    \/ Grow
    \/ Splice
    \/ Forget

Spec == Init /\ [][Next]_vars

\* the program is one thread that runs until it returns or panics
FairSpec == Spec /\ WF_vars(Next)

(***************************************************************************)
(* Termination of a pass.                                                  *)
(***************************************************************************)
\* the program has returned from process_rules, or has panicked
Finished == pc \in {"done", "panicked"}

\* C1, as stated: for every body and every rule, replacements longer than
\* the matched window included, every pass of process_rule terminates.
C1_TerminatesForEveryRule == <>Finished

\* C1, amended: every pass of process_rule in which no replacement is longer
\* than the window it replaces terminates.
C1_TerminatesUnlessExpanding == <>(Finished \/ expanded)

\* Why the rule replace(1, 2) never lets process_rule return on a body that
\* is not empty, however long the body may grow: each outer iteration adds
\* one token and advances the cursor by one, so that at the head of the loop
\* the cursor is as far from the end as it was at the start.
DuplicatingRuleNeverReturns ==
    (rules = <<Replace(1, 2)>> /\ body0 # <<>> /\ pc # "main") =>
        /\ pc # "done"
        /\ pc \in {"outer", "inner"} => Len(body) - start_index = Len(body0)

\* a pass over a body of two tokens or more has returned, after splices, none
\* of which made the body longer
C1_Witness ==
    /\ pc = "done"
    /\ ~expanded
    /\ Len(body0) >= 2
    /\ body # body0

(***************************************************************************)
(* The cursor after a splice.                                              *)
(***************************************************************************)
\* a step that splices the replacement into the body
SpliceStep == pc = "inner" /\ applied.kind = "Some" /\ pc' = "outer"

\* a step that gives up a start position: the window would pass the end
SkipStep == pc = "inner" /\ applied.kind = "None" /\ pc' = "outer"

\* C2, as stated: after every successful splice start_index advances by
\* exactly one, whatever the length of the replacement.
C2_AlwaysAdvancesByOne ==
    [][SpliceStep => start_index' = start_index + 1]_vars

\* C2, amended: after a successful splice start_index advances by exactly
\* one when the replacement is as long as the matched window or longer, and
\* stays where it is when the replacement is shorter (the empty replacement
\* included), in which case the body has become shorter; a start position
\* given up without a splice advances start_index by one.  So start_index
\* never decreases, and a start position is examined again only after a
\* splice that made the body shorter.
C2_AdvancesUnlessShorter ==
    [][/\ SpliceStep =>
            IF Len(applied.val) >= end_index - start_index
            THEN start_index' = start_index + 1
            ELSE start_index' = start_index /\ Len(body') < Len(body)
       /\ SkipStep => start_index' = start_index + 1 /\ body' = body]_vars

\* a replacement shorter than its window has just been spliced in behind a
\* cursor that had advanced before
C2_Witness ==
    /\ pc = "outer"
    /\ applied.kind = "Some"
    /\ Len(applied.val) < end_index - start_index
    /\ start_index > 0
    /\ Len(body) < Len(body0)

(***************************************************************************)
(* The deleting rule and the identity rule.                                *)
(***************************************************************************)
\* C3: a pass with the rule that returns the empty replacement for every
\* window of one token leaves the body empty.
C3_DeletionEmptiesBody ==
    (pc = "done" /\ rules = <<Replace(1, 0)>>) => body = <<>>

\* the deleting rule has run over a body of two tokens or more
C3_Witness ==
    /\ pc = "done"
    /\ rules = <<Replace(1, 0)>>
    /\ Len(body0) >= 2
    /\ called = {1}

\* C4: a pass with the identity rule leaves the body as it was: the same
\* tokens (body, indices and tags) in the same order.
C4_IdentityKeepsBody ==
    (pc = "done" /\ rules = <<Replace(1, 1)>>) => body = body0

\* the identity rule has been called and the cursor has passed each of two
\* or more tokens
C4_Witness ==
    /\ pc = "done"
    /\ rules = <<Replace(1, 1)>>
    /\ Len(body0) >= 2
    /\ called = {1}
    /\ start_index = Len(body0)

(***************************************************************************)
(* process_rules.                                                          *)
(***************************************************************************)
\* the least end in (lo + 1)..Len(tokens) at which the rule decides on
\* tokens[lo..end], or 0 when it decides on none of these windows
FirstDecision(r, tokens, lo) ==
    LET decided == {hi \in (lo + 1)..Len(tokens) :
                        Call(r, VecSlice(tokens, lo, hi)).kind # "None"}
    IN  IF decided = {} THEN 0
        ELSE CHOOSE hi \in decided : \A other \in decided : hi <= other

\* what one complete pass of the rule makes of the tokens, from the cursor
\* lo on: the result of process_rule computed as a function
RECURSIVE PassFrom(_, _, _)
PassFrom(r, tokens, lo) ==
    IF lo >= Len(tokens) THEN tokens
    ELSE LET hi == FirstDecision(r, tokens, lo)
         IN  IF hi = 0 THEN PassFrom(r, tokens, lo + 1)
             ELSE LET replacement == Call(r, VecSlice(tokens, lo, hi)).val
                  IN  PassFrom(r, splice(tokens, lo, hi, replacement),
                               IF Len(replacement) >= hi - lo THEN lo + 1 ELSE lo)

\* one pass after another, in the order of the list
RECURSIVE PassesInOrder(_, _)
PassesInOrder(rs, tokens) ==
    IF rs = <<>> THEN tokens
    ELSE PassesInOrder(Tail(rs), PassFrom(Head(rs), tokens, 0))

Reverse(rs) == [i \in 1..Len(rs) |-> rs[Len(rs) + 1 - i]]

\* C5: process_rules runs the rules one after another in the order of the
\* list, each as a complete pass: no rule later in the list than the running
\* one has been invoked, and between two passes and at the end the body is
\* what the complete passes of the rules taken so far make of the initial
\* body, rules[0] first.
C5_RulesInOrder ==
    /\ called \subseteq 1..rule_index
    /\ (pc \in {"rules", "done"} /\ ~truncated) =>
            body = PassesInOrder(SubSeq(rules, 1, rule_index), body0)
    /\ pc = "done" => rule_index = Len(rules)

\* process_rules has returned from two rules, both invoked, whose order
\* decides the result
C5_Witness ==
    /\ pc = "done"
    /\ Len(rules) = 2
    /\ called = {1, 2}
    /\ body # PassesInOrder(Reverse(rules), body0)

(***************************************************************************)
(* The token model: str_to_tokens and wrap.                                *)
(***************************************************************************)
\* the invariant of a token's span: 0 <= start <= end <= len(source)
SpanOk(tok) ==
    /\ 0 <= tok.indices.start
    /\ tok.indices.start <= tok.indices.end
    /\ tok.indices.end <= Len(tok.body)

\* the precondition of wrap: the tokens share one source and are contiguous
\* and in order
WrapPrecondition(tokens) ==
    /\ \A i \in 1..Len(tokens) : tokens[i].body = tokens[1].body
    /\ \A i \in 1..(Len(tokens) - 1) :
            tokens[i].indices.end = tokens[i + 1].indices.start

\* the rule has just been called on a window of the body as str_to_tokens
\* made it
CalledOnTokenizedBody ==
    /\ pc = "inner"
    /\ made_by = "str_to_tokens"
    /\ rule_index = 1
    /\ body = body0

\* C6: every window the engine passes to a rule during a pass over a body
\* made by str_to_tokens, the windows that hold the trailing sentinel
\* included, satisfies the precondition of wrap, and wrapping it gives a
\* token with 0 <= start <= end <= len(source).
C6_WindowsSatisfyWrapPrecondition ==
    CalledOnTokenizedBody =>
        /\ WrapPrecondition(Window)
        /\ SpanOk(wrap(Window, <<>>))

\* the contents of the tokens, one after another
RECURSIVE Concat(_)
Concat(tokens) ==
    IF tokens = <<>> THEN <<>>
    ELSE content(Head(tokens)) \o Concat(Tail(tokens))

\* the tag lists wrap is called with
TagLists == {<<>>, <<"word">>, <<"int", "posInt">>}

\* the runs body[lo..hi] of one token or more that satisfy the precondition
\* of wrap
Runs ==
    {run \in {VecSlice(body, lo, hi) : lo \in 0..Len(body), hi \in 1..Len(body)} :
        /\ run # <<>>
        /\ WrapPrecondition(run)
        /\ \A i \in 1..Len(run) : ContentOk(run[i])}

\* C7: wrapping a contiguous, ordered run of tokens over one source, which
\* is not empty, gives a token from the start of the first to the end of the
\* last, whose content is the contents of the run's tokens one after
\* another and whose tags are exactly the tags supplied.
C7_WrapSpansRun ==
    \A run \in Runs : \A tags \in TagLists :
        LET w == wrap(run, tags)
        IN  /\ w.body = run[1].body
            /\ w.indices.start = run[1].indices.start
            /\ w.indices.end = Last(run).indices.end
            /\ ContentOk(w)
            /\ content(w) = Concat(run)
            /\ w.tags = tags

\* the body holds a run of two tokens or more, the first of which a rule
\* made with wrap out of two characters or more and which carries tags that
\* wrap must drop
C7_Witness ==
    \E run \in Runs :
        /\ Len(run) >= 2
        /\ has_tag(run[1], "word")
        /\ Len(content(run[1])) >= 2
        /\ wrap(run, <<>>).tags # run[1].tags

\* C8: str_to_tokens(s) returns len(s) + 1 tokens, len(s) counted in
\* characters, also for the empty text and for a text with a character of
\* more than one byte: token i is character i of s, tagged with that
\* character alone, and the last token is the untagged sentinel of length 0.
C8_OneTokenPerCharacter ==
    made_by = "str_to_tokens" =>
        /\ ~(pc = "panicked" /\ rule_index = 0)
        /\ Len(body0) = Len(text) + 1
        /\ \A i \in 1..Len(text) :
            /\ ContentOk(body0[i])
            /\ content(body0[i]) = Utf8(<<text[i]>>)
            /\ body0[i].body = Utf8(text)
            /\ body0[i].indices.start = Len(Utf8(SubSeq(text, 1, i - 1)))
            /\ body0[i].tags = <<text[i]>>
        /\ Last(body0).indices.start = Last(body0).indices.end
        /\ Last(body0).tags = <<>>

(***************************************************************************)
(* The pipelines of the tests.                                             *)
(***************************************************************************)
\* the least position in i..Len(chars) + 1 that holds no digit
RECURSIVE DigitRunEnd(_, _)
DigitRunEnd(chars, i) ==
    IF i <= Len(chars) /\ is_digit(chars[i]) THEN DigitRunEnd(chars, i + 1) ELSE i

\* What C9 states of the integer pipeline, from character i on: a token of
\* one character for a '0' that leads a run of digits, one token from the
\* first other digit of the run to its end, both tagged int and posInt, one
\* token with its own tag for any other character that is no whitespace,
\* and nothing for whitespace.
RECURSIVE ExpectedInts(_, _)
ExpectedInts(chars, i) ==
    IF i > Len(chars) THEN <<>>
    ELSE IF is_whitespace(chars[i]) THEN ExpectedInts(chars, i + 1)
    ELSE IF chars[i] = "0"
         THEN <<Token(chars, i - 1, i, <<"int", "posInt">>)>>
              \o ExpectedInts(chars, i + 1)
    ELSE IF is_digit(chars[i])
         THEN <<Token(chars, i - 1, DigitRunEnd(chars, i) - 1, <<"int", "posInt">>)>>
              \o ExpectedInts(chars, DigitRunEnd(chars, i))
    ELSE <<Token(chars, i - 1, i, <<chars[i]>>)>> \o ExpectedInts(chars, i + 1)

\* process_rules has returned from the integer pipeline on str_to_tokens(text)
IntsDone ==
    /\ pc = "done"
    /\ made_by = "str_to_tokens"
    /\ rules = int_rules

\* C9: the integer pipeline on str_to_tokens(s), s an ASCII text, leaves the
\* tokens ExpectedInts states, in the order of the source, and neither a
\* whitespace token nor the sentinel; "123 040 k" gives "123" (0..3), "0"
\* (4..5), "40" (5..7), each tagged int and posInt, and "k" (8..9) tagged k.
C9_IntegerPipeline ==
    IntsDone =>
        /\ body = ExpectedInts(text, 1)
        /\ text = IntsText =>
            body = <<Token(IntsText, 0, 3, <<"int", "posInt">>),
                     Token(IntsText, 4, 5, <<"int", "posInt">>),
                     Token(IntsText, 5, 7, <<"int", "posInt">>),
                     Token(IntsText, 8, 9, <<"k">>)>>

\* The part of C9 the code satisfies: the same with the character U+0000
\* counted as whitespace, as whitespace_rule counts it.
RECURSIVE WithoutNul(_)
WithoutNul(chars) ==
    IF chars = <<>> THEN <<>>
    ELSE IF Head(chars) = NUL THEN <<" ">> \o WithoutNul(Tail(chars))
    ELSE <<Head(chars)>> \o WithoutNul(Tail(chars))

Rebased(tokens, chars) == [i \in 1..Len(tokens) |-> [tokens[i] EXCEPT !.body = chars]]

IntegerPipelineWithNulAsWhitespace ==
    IntsDone =>
        /\ body = Rebased(ExpectedInts(WithoutNul(text), 1), text)
        /\ text = IntsText =>
            body = <<Token(IntsText, 0, 3, <<"int", "posInt">>),
                     Token(IntsText, 4, 5, <<"int", "posInt">>),
                     Token(IntsText, 5, 7, <<"int", "posInt">>),
                     Token(IntsText, 8, 9, <<"k">>)>>

\* The part of C8 the code satisfies: the same for the texts of one-byte
\* characters, on which str_to_tokens does not panic.
OneTokenPerOneByteCharacter ==
    (made_by = "str_to_tokens" /\ \A i \in 1..Len(text) : len_utf8(text[i]) = 1) =>
        /\ ~(pc = "panicked" /\ rule_index = 0)
        /\ body0 = [i \in 1..(Len(text) + 1) |->
                        IF i <= Len(text) THEN Token(text, i - 1, i, <<text[i]>>)
                        ELSE Token(<<>>, 0, 0, <<>>)]

\* the least position in i..Len(chars) + 1 that holds no letter
RECURSIVE LetterRunEnd(_, _)
LetterRunEnd(chars, i) ==
    IF i <= Len(chars) /\ is_alphabetic(chars[i]) THEN LetterRunEnd(chars, i + 1) ELSE i

\* What C10 states of the word pipeline, from character i on: for each
\* greatest run of letters one token that spans it, tagged word alone.
RECURSIVE ExpectedWords(_, _)
ExpectedWords(chars, i) ==
    IF i > Len(chars) THEN <<>>
    ELSE IF is_alphabetic(chars[i])
         THEN <<Token(chars, i - 1, LetterRunEnd(chars, i) - 1, <<"word">>)>>
              \o ExpectedWords(chars, LetterRunEnd(chars, i))
    ELSE ExpectedWords(chars, i + 1)

\* process_rules has returned from the word pipeline on str_to_tokens(text),
\* text made of ASCII letters and whitespace alone
WordsDone ==
    /\ pc = "done"
    /\ made_by = "str_to_tokens"
    /\ rules = word_rules
    /\ \A i \in 1..Len(text) :
            is_whitespace(text[i]) \/ (is_alphabetic(text[i]) /\ len_utf8(text[i]) = 1)

\* C10: the word pipeline on str_to_tokens(s), s made of ASCII letters and
\* whitespace, leaves one token for each greatest run of letters, in the
\* order of the source, spanning the run and tagged word alone, and neither
\* a whitespace token nor the sentinel; "A space" gives "A" and "space".
C10_WordPipeline ==
    WordsDone =>
        /\ body = ExpectedWords(text, 1)
        /\ text = WordsText =>
            body = <<Token(WordsText, 0, 1, <<"word">>),
                     Token(WordsText, 2, 7, <<"word">>)>>

\* the word pipeline has returned two words, one of them of two letters or
\* more
C10_Witness ==
    /\ WordsDone
    /\ Len(body) >= 2
    /\ \E i \in 1..Len(body) : Len(content(body[i])) >= 2

(***************************************************************************)
(* A second pass of the same rule.                                         *)
(***************************************************************************)
\* process_rule has just returned from a pass in which no replacement was
\* longer than its window
PassReturned == pc = "rules" /\ rule_index >= 1 /\ ~truncated /\ ~expanded

\* the rules of the inputs that append a tag to a token of their window
TaggingRules ==
    {Named(n) : n \in {"whitespace_rule", "letter_rule", "digit_rule"}}

EndsWithSentinel(tokens) == tokens # <<>> /\ Last(tokens) = empty_token

\* the rule of the pass keeps, deletes or merges tokens and appends no tag,
\* and, if it is int_rule, the pass began with the sentinel at the end
SettlesInOnePass ==
    /\ rule \notin TaggingRules
    /\ rule = Named("int_rule") => EndsWithSentinel(pass_body)

SecondPassOfTaggingRule ==
    (PassReturned /\ rule \in TaggingRules) =>
        LET again == PassFrom(rule, body, 0)
        IN  /\ Len(again) = Len(body)
            /\ \A i \in 1..Len(body) :
                    /\ again[i].body = body[i].body
                    /\ again[i].indices = body[i].indices

SoundTokens == {body[i] : i \in {j \in 1..Len(body) : ContentOk(body[j])}}

\* C12: single_char returns the character of a token whose content is one
\* character long, and None for every other token: for the empty token and
\* for a token whose content is two characters long or longer.
C12_SingleCharOfOneCharacterTokens ==
    \A tok \in SoundTokens :
        IF CharLen(content(tok)) = 1
        THEN single_char(tok).kind = "Some" /\ single_char(tok).val = content(tok)[1]
        ELSE single_char(tok).kind = "None"

\* What the code does: single_char returns the first character of the
\* content, however long the content is, and None for an empty content; the
\* rules read it as U+0000 then.
SingleCharIsFirstCharacter ==
    \A tok \in SoundTokens :
        /\ single_char(tok).kind = (IF CharLen(content(tok)) = 0 THEN "None" ELSE "Some")
        /\ CharLen(content(tok)) > 0 => single_char(tok).val = content(tok)[1]
        /\ single_char_or_default(tok) =
                (IF single_char(tok).kind = "None" THEN NUL ELSE single_char(tok).val)

(***************************************************************************)
(* The windows of a pass.                                                  *)
(***************************************************************************)
\* the rule has been called on body[start_index..end_index] and has returned
\* or panicked
RuleCalled ==
    \/ pc = "inner"
    \/ pc = "panicked" /\ applied.kind = "Panic"

\* C13: whenever process_rule calls the rule, the window is
\* body[start_index..end_index] of the body as it is then, with
\* 0 <= start_index < end_index <= body.len(): the rule is never called on
\* an empty window and no slice past the end of the body is taken, also
\* after splices that made the body shorter or longer.
C13_WindowWithinBody ==
    /\ applied.kind # "SlicePanic"
    /\ RuleCalled =>
        /\ 0 <= start_index
        /\ start_index < end_index
        /\ end_index <= Len(body)
        /\ Len(Window) = end_index - start_index
        /\ applied = Call(rule, Window)

\* the rule has been called on a window of two tokens or more that reaches
\* the end of a body which splices of the same pass have made shorter
C13_Witness ==
    /\ pc = "inner"
    /\ Len(body) < Len(pass_body)
    /\ end_index = Len(body)
    /\ end_index - start_index >= 2

\* the same on a body that a splice has made longer
WindowAtEndOfGrownBody ==
    /\ pc = "inner"
    /\ expanded
    /\ end_index = Len(body)
    /\ end_index - start_index >= 2

(***************************************************************************)
(* The growth of the window.                                               *)
(***************************************************************************)
\* a step that begins an outer iteration: the first call of the rule
BeginStep == pc = "outer" /\ pc' \in {"inner", "panicked"}

\* a step that calls the rule again, after no decision
GrowStep == pc = "inner" /\ applied.kind = "None" /\ pc' \in {"inner", "panicked"}

\* C14: an outer iteration calls the rule first on the window of one token
\* at start_index and then, while the rule returns None, on the windows of
\* 2, 3, ... tokens at the same start_index, one token more at each call.
\* The growth ends at the first replacement, which is spliced in, or when
\* the window would pass the end of the body: then start_index advances by
\* one, nothing is spliced, and the next outer iteration begins again with
\* a window of one token.
C14_WindowGrowsByOne ==
    [][/\ BeginStep =>
            /\ end_index' = start_index + 1
            /\ start_index' = start_index
            /\ body' = body
            /\ applied' = Call(rule, VecSlice(body, start_index, start_index + 1))
       /\ GrowStep =>
            /\ end_index < Len(body)
            /\ end_index' = end_index + 1
            /\ start_index' = start_index
            /\ body' = body
            /\ applied' = Call(rule, VecSlice(body, start_index, end_index + 1))
       /\ SkipStep =>
            /\ end_index = Len(body)
            /\ start_index' = start_index + 1
            /\ body' = body
       /\ (pc = "inner" /\ applied.kind = "None" /\ end_index < Len(body)) => GrowStep
       /\ (pc = "inner" /\ applied.kind = "None" /\ end_index >= Len(body)) => SkipStep
       /\ (pc = "inner" /\ applied.kind = "Some") => SpliceStep]_vars

\* at a cursor that has advanced the rule has returned None for every
\* window up to the end of the body, the last of them of three tokens or
\* more: the start position is about to be given up
C14_Witness ==
    /\ pc = "inner"
    /\ applied.kind = "None"
    /\ start_index > 0
    /\ end_index = Len(body)
    /\ end_index - start_index >= 3

(***************************************************************************)
(* The rule that never decides.                                            *)
(***************************************************************************)
\* process_rules was given the rule that returns None for every window
NeverDeciding == rules = <<Named("none_rule")>>

\* the calls of the rule in the outer iterations at the start positions
\* below start, on a body of n tokens: n + (n - 1) + ... + (n - start + 1)
CallsBefore(n, start) == Triangle(n) - Triangle(n - start)

\* where a pass of the rule that never decides is: the body is the initial
\* one, the outer iterations so far are one for each start position up to
\* the cursor, and the rule has been called once on each window of the
\* start positions behind the cursor and on the windows of 1 to
\* end_index - start_index tokens at the cursor
NeverDecidingPass ==
    LET n == Len(body0)
    IN  /\ body = body0
        /\ pc = "outer" =>
                /\ iterations = start_index
                /\ invocations = CallsBefore(n, start_index)
        /\ pc = "inner" =>
                /\ iterations = start_index + 1
                /\ invocations = CallsBefore(n, start_index) + (end_index - start_index)
        /\ pc \in {"rules", "done"} /\ rule_index = 1 =>
                /\ start_index = n
                /\ iterations = n
                /\ invocations = Triangle(n)

\* C15: a pass of the rule that returns None for every window, over a body
\* of n tokens, terminates with the body as it was; each start position
\* 0 .. n - 1 is visited exactly once, and is given up after the rule has
\* been called on the windows of every length from 1 to n - start.
C15_NeverDecidingRuleSkipsAll ==
    /\ [](NeverDeciding => NeverDecidingPass)
    /\ [][(NeverDeciding /\ SkipStep) =>
                end_index - start_index = Len(body0) - start_index]_vars
    /\ NeverDeciding => <>Finished

\* the rule that never decides has returned from a body of three tokens or
\* more
C15_Witness ==
    /\ NeverDeciding
    /\ pc = "done"
    /\ Len(body0) >= 3
    /\ body = body0
    /\ invocations = Triangle(Len(body0))

(***************************************************************************)
(* What a splice changes.                                                  *)
(***************************************************************************)
\* a step of process_rule, from the head of the outer loop or after a call
\* of the rule
PassStep == pc = "inner" \/ (pc = "outer" /\ pc' # "outer")

\* C16: a splice of the replacement R for the window [start, end) changes
\* the body inside that window alone: the tokens below start are as they
\* were, R is at start .. start + len(R), the tokens that were at end and
\* above follow, unchanged and in their order, and the new length is the old
\* one - (end - start) + len(R).  A call of the rule that returns None
\* changes nothing in the body, and neither does any other call: the rule
\* is given a copy of the window.
C16_SpliceChangesWindowOnly ==
    [][/\ SpliceStep =>
            LET R == applied.val
            IN  /\ Len(body') = Len(body) - (end_index - start_index) + Len(R)
                /\ \A i \in 1..start_index : body'[i] = body[i]
                /\ \A j \in 1..Len(R) : body'[start_index + j] = R[j]
                /\ \A i \in (end_index + 1)..Len(body) :
                        body'[i - (end_index - start_index) + Len(R)] = body[i]
       /\ (PassStep /\ ~SpliceStep) => body' = body]_vars

\* a replacement of another length than its window has just been spliced in
\* between tokens that stay: the cursor had advanced and the window ended
\* before the end of the body
C16_Witness ==
    /\ pc = "outer"
    /\ applied.kind = "Some"
    /\ Len(applied.val) # end_index - start_index
    /\ start_index > 0
    /\ Len(body) > start_index + Len(applied.val)
    /\ Len(body) # Len(pass_body)

(***************************************************************************)
(* The cursor of a pass.                                                   *)
(***************************************************************************)
\* the last splice put a replacement shorter than its window at the cursor,
\* and the outer loop is at its head again
AfterShorterReplacement ==
    /\ pc = "outer"
    /\ applied.kind = "Some"
    /\ Len(applied.val) < end_index - start_index

\* C17: after a splice start_index is left where it is when the replacement
\* is shorter than the window, so that the next outer iteration calls the
\* same rule at the same start_index, on what was spliced in and what
\* follows it; it advances by one when the replacement is as long as the
\* window or longer.  No step of a pass makes start_index smaller, and an
\* outer iteration advances it by one at most, at its end.
C17_CursorStaysAfterShorterReplacement ==
    [][/\ SpliceStep =>
            /\ Len(applied.val) < end_index - start_index => start_index' = start_index
            /\ Len(applied.val) >= end_index - start_index =>
                    start_index' = start_index + 1
       /\ (AfterShorterReplacement /\ start_index < Len(body)) =>
            /\ BeginStep
            /\ rule_index' = rule_index
            /\ start_index' = start_index
            /\ applied' = Call(rule, VecSlice(body, start_index, start_index + 1))
       /\ PassStep =>
            /\ start_index' >= start_index
            /\ start_index' <= start_index + 1
            /\ start_index' # start_index => pc' = "outer"]_vars

\* the rule has been called again at a start position at which a shorter
\* replacement had been spliced in: the pass is in an outer iteration beyond
\* the first one at its cursor
C17_Witness ==
    /\ pc = "inner"
    /\ ~truncated
    /\ iterations > start_index + 1
    /\ Len(body) < Len(pass_body)

\* C18: within a pass the tokens behind the cursor are final: no step of
\* the pass changes, removes or reorders a token at an index below
\* start_index, and the cursor does not go back to them.
C18_PrefixBehindCursorIsFinal ==
    [][PassStep =>
            /\ start_index' >= start_index
            /\ Len(body') >= start_index
            /\ \A i \in 1..start_index : body'[i] = body[i]]_vars

\* behind two tokens or more that the cursor has passed, a replacement
\* shorter than its window is about to be spliced in
C18_Witness ==
    /\ pc = "inner"
    /\ start_index >= 2
    /\ applied.kind = "Some"
    /\ Len(applied.val) < end_index - start_index

(***************************************************************************)
(* The cost of a pass.                                                     *)
(***************************************************************************)
\* a pass is running or has returned, and no replacement has been longer
\* than its window
InShrinkingPass == rule_index >= 1 /\ pc # "panicked" /\ ~expanded

\* the tokens from the cursor to the end of the body
Remaining == Len(body) - start_index

\* C19: in a pass over a body of n tokens in which no replacement is longer
\* than its window, the tokens from the cursor to the end become fewer with
\* every outer iteration; so the pass makes n outer iterations at most,
\* calls the rule n(n+1)/2 times at most, and returns.
C19_PassIsQuadratic ==
    /\ [](InShrinkingPass =>
            LET n == Len(pass_body)
            IN  /\ iterations <= n
                /\ invocations <= Triangle(n)
                /\ pc = "outer" => iterations + Remaining <= n
                /\ pc = "inner" => iterations + Remaining <= n + 1)
    /\ [][(pc = "inner" /\ pc' = "outer" /\ ~expanded') =>
                Len(body') - start_index' < Len(body) - start_index]_vars
    /\ <>(Finished \/ expanded)

\* a pass over three tokens or more has returned after as many outer
\* iterations as the body had tokens, some of which spliced in a shorter
\* replacement
C19_Witness ==
    /\ pc = "rules"
    /\ InShrinkingPass
    /\ Len(pass_body) >= 3
    /\ iterations = Len(pass_body)
    /\ Len(body) < Len(pass_body)

====
